---- MODULE Spec2Model ----
(***************************************************************************)
(* Model of server/server.py: a threaded HTTP server that gates every      *)
(* request on an IP blacklist read from a ledger, a background thread that *)
(* periodically refreshes the ledger, and SIGINT-driven shutdown.          *)
(*                                                                         *)
(* Threads: the main thread (main + signal_handler, which Python runs in   *)
(* the main thread), the update thread (periodic_update) and one thread    *)
(* per request (ThreadingMixIn, daemon_threads = True).  A step of the     *)
(* model is one access to shared state (ledger, auto_update_interval, the  *)
(* two events) together with the local computation that surrounds it.      *)
(*                                                                         *)
(* blacklist.py is not part of the sources; its six functions are modelled *)
(* from the LedgerGateway interface of the specification.                  *)
(* POST /blacklist/addTestAttacks (five consecutive log_attack calls) is   *)
(* left out: it is gated like every other POST path and adds nothing but   *)
(* ledger length.  Lines 328-334 of main are unreachable once the SIGINT   *)
(* handler is installed (serve_forever only returns through exit(0)).      *)
(***************************************************************************)
EXTENDS Integers, Sequences, FiniteSets, TLC

\* ---------------------------------------------------------------- bounds
MaxLedger == 2
MaxInterval == 2

\* ------------------------------------------------------------- constants
InitialInterval == 30

\* Request threads alive at the same time.  Spec runs one request at a time
\* against the update thread and the signal handler; SpecPair runs two
\* requests against each other.
Handlers == {"h1", "h2"}
Serial == {"h1"}

\* IPs that occur in attack records and that requests come from
IPs == {"a", "b"}
Clients == IPs
AttackTypes == {"DoS Test"}

VARIABLES
    ledger,                \* the attack records held by the ledger
    auto_update_interval,  \* module global, line 32
    auto_update_event,     \* module global threading.Event, line 33
    stop_event,            \* module global threading.Event, line 34
    httpd,                 \* module global, line 36
    server,                \* the ThreadedHTTPServer bound to main's local httpd
    class_blacklist_ips,   \* SimpleRESTHandler.blacklist_ips (class attribute)
    handler,               \* per request thread: position and locals
    sched,                 \* the update thread: position, wait timeout and
                           \* whether its last fetch_blacklist raised
    mainpc                 \* the main thread: main / signal_handler position

vars == <<ledger, auto_update_interval, auto_update_event, stop_event, httpd,
          server, class_blacklist_ips, handler, sched, mainpc>>

\* ------------------------------------------------- ledger (blacklist.py)
Record(ip, attack_type) == [ip |-> ip, attack_type |-> attack_type]

get_blacklist(l) == l

log_attack(l, ip, attack_type) == Append(l, Record(ip, attack_type))

clear_blacklist(l) == <<>>

\* delete(index) -> bool: true iff a record existed at that index
delete_exists(l, index) == index >= 0 /\ index < Len(l)

delete_attack(l, index) ==
    IF delete_exists(l, index)
    THEN SubSeq(l, 1, index) \o SubSeq(l, index + 2, Len(l))
    ELSE l

\* refresh_from_source(): resync, records as listed afterwards
fetch_blacklist(l) == l

force_update(l) == l

\* ------------------------------------------------------ request handling
\* IPsOf that stops after the first record
IPsOfFirst(attacks) ==
    {attacks[i].ip : i \in {j \in 1..Len(attacks) : j = 1}}

\* set(attack['ip'] for attack in attacks if 'ip' in attack), line 91
IPsOf(attacks) ==
    {attacks[i].ip : i \in {j \in 1..Len(attacks) : "ip" \in DOMAIN attacks[j]}}

NoBody == [kind |-> "none", v |-> 0, ip |-> ""]

\* Bodies of POST /blacklist/set-interval.  kind: "empty" (Content-Length 0),
\* "malformed" (not JSON), "nonobject" (JSON, not an object), "missing" (no
\* interval key), "null", "int" (v), "float" (v tenths, e.g. 25 is 2.5),
\* "numstr" (the decimal string of v), "badstr" (a non-numeric string),
\* "bool" (v = 1 for true).
IntervalBodies ==
    {[kind |-> k, v |-> 0, ip |-> ""] :
        k \in {"empty", "malformed", "nonobject", "missing", "null", "badstr"}}
    \cup {[kind |-> "int", v |-> n, ip |-> ""] : n \in (-1)..MaxInterval}
    \cup {[kind |-> "float", v |-> t, ip |-> ""] : t \in {5, 25}}
    \cup {[kind |-> "numstr", v |-> n, ip |-> ""] : n \in {2}}
    \cup {[kind |-> "bool", v |-> b, ip |-> ""] : b \in {0, 1}}

\* Python int(): truncation toward zero for floats
TruncTenths(t) == IF t >= 0 THEN t \div 10 ELSE -((-t) \div 10)

\* ParseInterval without the test new_interval < 1
ParseIntervalNoMin(body) ==
    LET raised == [ok |-> FALSE, value |-> 0]
        int ==
            CASE body.kind = "int" -> body.v
              [] body.kind = "float" -> TruncTenths(body.v)
              [] body.kind = "numstr" -> body.v
              [] body.kind = "bool" -> body.v
              [] body.kind = "missing" -> 0
              [] OTHER -> 0
    IN  IF body.kind \in {"empty", "malformed", "nonobject", "null", "badstr"}
        THEN raised
        ELSE [ok |-> TRUE, value |-> int]

\* lines 154-166: [ok, value]; ok = FALSE is the 400 answer.
\* int(data.get("interval", 0)) and the test new_interval < 1
ParseInterval(body) ==
    LET raised == [ok |-> FALSE, value |-> 0]
        int ==
            CASE body.kind = "int" -> body.v
              [] body.kind = "float" -> TruncTenths(body.v)
              [] body.kind = "numstr" -> body.v
              [] body.kind = "bool" -> body.v
              [] body.kind = "missing" -> 0
              [] OTHER -> 0
    IN  IF body.kind \in {"empty", "malformed", "nonobject", "null", "badstr"}
        THEN raised
        ELSE IF int < 1 THEN raised ELSE [ok |-> TRUE, value |-> int]

\* Bodies of POST /blacklist/log: "ok" (both fields present and non-empty),
\* "malformed", "noip", "notype", "emptyip"
LogBodies ==
    {[kind |-> "ok", v |-> 0, ip |-> i] : i \in IPs}
    \cup {[kind |-> k, v |-> 0, ip |-> ""] :
            k \in {"malformed", "noip", "emptyip"}}
    \cup {[kind |-> "notype", v |-> 0, ip |-> i] : i \in {"a"}}

\* ParseLog that tests the fields for presence only, not for emptiness
ParseLogPresentOnly(body) == body.kind \in {"ok", "emptyip"}

\* lines 203-209
ParseLog(body) == body.kind = "ok"

GetPaths == {"/", "/blacklist", "/other"}
PostPaths == {"/blacklist/set-interval", "/blacklist/update",
              "/blacklist/clear", "/blacklist/log", "/other"}
BodiesOf(path) ==
    CASE path = "/blacklist/set-interval" -> IntervalBodies
      [] path = "/blacklist/log" -> LogBodies
      [] OTHER -> {NoBody}

\* DELETE targets: /blacklist/delete/<index>, /blacklist/delete/<non-integer>
\* and any other path
DeleteTargets ==
    {[path |-> "/blacklist/delete/{index}", index |-> i] : i \in 0..MaxLedger}
    \cup {[path |-> k, index |-> 0] :
            k \in {"/blacklist/delete/{non-integer}", "/other"}}

\* A request thread before its handler has run
Idle ==
    [pc |-> "idle", verb |-> "", path |-> "", client_ip |-> "", body |-> NoBody,
     blacklist_ips |-> <<>>, new_interval |-> 0, index |-> 0, success |-> FALSE,
     attacks |-> <<>>, force_calls |-> 0, resp |-> 0, sent |-> <<>>]

\* self.blacklist_ips of the handler instance r: the instance attribute when
\* load_blacklist has set it, the class attribute otherwise
SelfBlacklistIps(r) ==
    IF r.blacklist_ips = <<>> THEN class_blacklist_ips ELSE r.blacklist_ips[1]

\* load_blacklist that reads the ledger and assigns nothing
load_blacklistNoAssign(r) == r

\* load_blacklist, lines 86-91: assigns the instance attribute
load_blacklist(r) ==
    [r EXCEPT !.blacklist_ips = <<IPsOf(get_blacklist(ledger))>>]

\* client_ip_blocked that looks the caller up in the class attribute
client_ip_blockedClass(r) == r.client_ip \in class_blacklist_ips

\* client_ip_blocked, lines 93-98
client_ip_blocked(r) == r.client_ip \in SelfBlacklistIps(r)

Running == mainpc \in {"serving", "sig_wake"}
Accepting == mainpc = "serving"
Ended == {"idle", "done", "crashed", "load_failed"}
Free(h) == handler[h].pc \in Ended

Set(h, r) == handler' = [handler EXCEPT ![h] = r]

\* send_response .. wfile.write: the response is sent and the thread ends; of
\* the thread's locals the request, the instance attribute and what the
\* endpoint computed are kept for inspection
Respond(r, code) ==
    [r EXCEPT !.pc = "done", !.resp = code, !.attacks = <<>>, !.index = 0,
              !.success = FALSE]

\* an exception leaves the handler: the thread ends, no response is sent.
\* at is "load_failed" (raised in load_blacklist) or "crashed" (raised by a
\* ledger call of the endpoint)
Crash(r, at) == [Idle EXCEPT !.pc = at, !.verb = r.verb, !.path = r.path]

Init ==
    /\ ledger = <<>>
    /\ auto_update_interval = InitialInterval
    /\ auto_update_event = FALSE
    /\ stop_event = FALSE
    /\ httpd = "None"
    /\ server = "absent"
    /\ class_blacklist_ips = {}
    /\ handler = [h \in Handlers |-> Idle]
    /\ sched = [pc |-> "unstarted", timeout |-> 0, failed |-> FALSE]
    /\ mainpc = "setup"


\* ----------------------------------------------------------------- do_GET
\* lines 106-137 on a handler r whose load_blacklist has returned: the gate
\* and the dispatch on the path
GetDispatch(r) ==
    IF client_ip_blocked(r) THEN Respond(r, 403)
    ELSE IF r.path = "/blacklist" THEN [r EXCEPT !.pc = "get_list"]
    ELSE IF r.path = "/" THEN Respond(r, 200)
    ELSE Respond(r, 404)

\* lines 100-111, then 124-137 for the paths that touch no shared state.
\* read_ok = FALSE: get_blacklist raises inside load_blacklist; nothing in
\* do_GET catches it, the thread ends without sending a response.
do_GET(h, client_ip, path, read_ok) ==
    LET r0 == [Idle EXCEPT !.verb = "GET", !.path = path,
                           !.client_ip = client_ip]
        loaded == load_blacklist(r0)
    IN  /\ Accepting
        /\ Free(h)
        /\ IF ~read_ok
           THEN Set(h, Crash(r0, "load_failed"))
           ELSE Set(h, GetDispatch(loaded))
        /\ UNCHANGED <<ledger, auto_update_interval, auto_update_event,
                       stop_event, httpd, server, class_blacklist_ips, sched,
                       mainpc>>

\* lines 112-122: GET /blacklist
GetList(h, read_ok) ==
    /\ Running
    /\ handler[h].pc = "get_list"
    /\ IF read_ok
       THEN Set(h, [Respond(handler[h], 200) EXCEPT
                      !.sent = get_blacklist(ledger)])
       ELSE Set(h, Crash(handler[h], "crashed"))
    /\ UNCHANGED <<ledger, auto_update_interval, auto_update_event,
                   stop_event, httpd, server, class_blacklist_ips, sched,
                   mainpc>>

\* ---------------------------------------------------------------- do_POST
\* lines 146-166, 179, 192, 200-214, 228-232 on a handler r whose
\* load_blacklist has returned: the gate, the dispatch on the path and the
\* validation of the body
PostDispatch(r) ==
    LET parsed == ParseInterval(r.body)
    IN  IF client_ip_blocked(r) THEN Respond(r, 403)
        ELSE CASE r.path = "/blacklist/set-interval" ->
                    IF parsed.ok
                    THEN [r EXCEPT !.pc = "si_assign",
                                   !.new_interval = parsed.value]
                    ELSE Respond(r, 400)
               [] r.path = "/blacklist/update" -> [r EXCEPT !.pc = "upd_force"]
               [] r.path = "/blacklist/clear" -> [r EXCEPT !.pc = "clr_call"]
               [] r.path = "/blacklist/log" ->
                    IF ParseLog(r.body)
                    THEN [r EXCEPT !.pc = "log_call"]
                    ELSE Respond(r, 400)
               [] OTHER -> Respond(r, 404)

\* lines 139-166, 179, 192, 200-214, 228-232: load, gate, dispatch and the
\* validation of the body, up to the first access to shared state.
do_POST(h, client_ip, path, body, read_ok) ==
    LET r0 == [Idle EXCEPT !.verb = "POST", !.path = path,
                           !.client_ip = client_ip, !.body = body]
        loaded == load_blacklist(r0)
    IN  /\ Accepting
        /\ Free(h)
        /\ IF ~read_ok
           THEN Set(h, Crash(r0, "load_failed"))
           ELSE Set(h, PostDispatch(loaded))
        /\ UNCHANGED <<ledger, auto_update_interval, auto_update_event,
                       stop_event, httpd, server, class_blacklist_ips, sched,
                       mainpc>>

\* line 168: auto_update_interval = new_interval
SetIntervalAssign(h) ==
    /\ Running
    /\ handler[h].pc = "si_assign"
    /\ auto_update_interval' = handler[h].new_interval
    /\ Set(h, [handler[h] EXCEPT !.pc = "si_event"])
    /\ UNCHANGED <<ledger, auto_update_event, stop_event, httpd, server,
                   class_blacklist_ips, sched, mainpc>>

\* line 170: auto_update_event.set()
SetIntervalWake(h) ==
    /\ Running
    /\ handler[h].pc = "si_event"
    /\ auto_update_event' = TRUE
    /\ Set(h, [handler[h] EXCEPT !.pc = "si_respond"])
    /\ UNCHANGED <<ledger, auto_update_interval, stop_event, httpd, server,
                   class_blacklist_ips, sched, mainpc>>

\* lines 172-177
SetIntervalRespond(h) ==
    /\ Running
    /\ handler[h].pc = "si_respond"
    /\ Set(h, Respond(handler[h], 200))
    /\ UNCHANGED <<ledger, auto_update_interval, auto_update_event,
                   stop_event, httpd, server, class_blacklist_ips, sched,
                   mainpc>>

\* line 180: force_update()
UpdateForce(h, call_ok) ==
    /\ Running
    /\ handler[h].pc = "upd_force"
    /\ IF call_ok
       THEN /\ ledger' = force_update(ledger)
            /\ Set(h, [handler[h] EXCEPT !.pc = "upd_read",
                          !.force_calls = @ + 1])
       ELSE /\ Set(h, Crash(handler[h], "crashed"))
            /\ UNCHANGED ledger
    /\ UNCHANGED <<auto_update_interval, auto_update_event, stop_event,
                   httpd, server, class_blacklist_ips, sched, mainpc>>

\* line 181: attacks = get_blacklist()
UpdateRead(h, read_ok) ==
    /\ Running
    /\ handler[h].pc = "upd_read"
    /\ IF read_ok
       THEN Set(h, [handler[h] EXCEPT !.pc = "upd_respond",
                       !.attacks = get_blacklist(ledger)])
       ELSE Set(h, Crash(handler[h], "crashed"))
    /\ UNCHANGED <<ledger, auto_update_interval, auto_update_event,
                   stop_event, httpd, server, class_blacklist_ips, sched,
                   mainpc>>

\* UpdateRespond with the response built from an empty list instead of the
\* records just read
UpdateRespondStale(h) ==
    /\ Running
    /\ handler[h].pc = "upd_respond"
    /\ Set(h, [Respond(handler[h], 200) EXCEPT !.sent = <<>>])
    /\ UNCHANGED <<ledger, auto_update_interval, auto_update_event,
                   stop_event, httpd, server, class_blacklist_ips, sched,
                   mainpc>>

\* lines 182-190
UpdateRespond(h) ==
    /\ Running
    /\ handler[h].pc = "upd_respond"
    /\ Set(h, [Respond(handler[h], 200) EXCEPT !.sent = handler[h].attacks])
    /\ UNCHANGED <<ledger, auto_update_interval, auto_update_event,
                   stop_event, httpd, server, class_blacklist_ips, sched,
                   mainpc>>

\* ClearCall that answers without having called clear_blacklist
ClearCallSkips(h, call_ok) ==
    /\ Running
    /\ handler[h].pc = "clr_call"
    /\ Set(h, [handler[h] EXCEPT !.pc = "clr_respond"])
    /\ UNCHANGED <<ledger, auto_update_interval, auto_update_event,
                   stop_event, httpd, server, class_blacklist_ips, sched,
                   mainpc>>

\* line 193: clear_blacklist()
ClearCall(h, call_ok) ==
    /\ Running
    /\ handler[h].pc = "clr_call"
    /\ IF call_ok
       THEN /\ ledger' = clear_blacklist(ledger)
            /\ Set(h, [handler[h] EXCEPT !.pc = "clr_respond"])
       ELSE /\ Set(h, Crash(handler[h], "crashed"))
            /\ UNCHANGED ledger
    /\ UNCHANGED <<auto_update_interval, auto_update_event, stop_event,
                   httpd, server, class_blacklist_ips, sched, mainpc>>

\* lines 194-198
ClearRespond(h) ==
    /\ Running
    /\ handler[h].pc = "clr_respond"
    /\ Set(h, Respond(handler[h], 200))
    /\ UNCHANGED <<ledger, auto_update_interval, auto_update_event,
                   stop_event, httpd, server, class_blacklist_ips, sched,
                   mainpc>>

\* line 216: log_attack(ip, attack_type); the ledger holds at most MaxLedger
\* records
LogCall(h, attack_type, call_ok) ==
    /\ Running
    /\ handler[h].pc = "log_call"
    /\ Len(ledger) < MaxLedger
    /\ IF call_ok
       THEN /\ ledger' = log_attack(ledger, handler[h].body.ip, attack_type)
            /\ Set(h, [handler[h] EXCEPT !.pc = "log_respond"])
       ELSE /\ Set(h, Crash(handler[h], "crashed"))
            /\ UNCHANGED ledger
    /\ UNCHANGED <<auto_update_interval, auto_update_event, stop_event,
                   httpd, server, class_blacklist_ips, sched, mainpc>>

\* lines 217-221
LogRespond(h) ==
    /\ Running
    /\ handler[h].pc = "log_respond"
    /\ Set(h, Respond(handler[h], 200))
    /\ UNCHANGED <<ledger, auto_update_interval, auto_update_event,
                   stop_event, httpd, server, class_blacklist_ips, sched,
                   mainpc>>

\* -------------------------------------------------------------- do_DELETE
\* lines 235-250, 263-264: the path is parsed; no load_blacklist, no gate
do_DELETE(h, client_ip, target) ==
    LET r0 == [Idle EXCEPT !.verb = "DELETE", !.path = target.path,
                           !.client_ip = client_ip, !.index = target.index]
    IN  /\ Accepting
        /\ Free(h)
        /\ CASE target.path = "/blacklist/delete/{index}" ->
                  Set(h, [r0 EXCEPT !.pc = "del_call"])
             [] target.path = "/blacklist/delete/{non-integer}" ->
                  Set(h, Respond(r0, 400))
             [] OTHER -> Set(h, Respond(r0, 404))
        /\ UNCHANGED <<ledger, auto_update_interval, auto_update_event,
                       stop_event, httpd, server, class_blacklist_ips, sched,
                       mainpc>>

\* line 252: success = delete_attack(index)
DeleteCall(h, call_ok) ==
    /\ Running
    /\ handler[h].pc = "del_call"
    /\ IF call_ok
       THEN /\ ledger' = delete_attack(ledger, handler[h].index)
            /\ Set(h, [handler[h] EXCEPT !.pc = "del_respond",
                          !.success = delete_exists(ledger, handler[h].index)])
       ELSE /\ Set(h, Crash(handler[h], "crashed"))
            /\ UNCHANGED ledger
    /\ UNCHANGED <<auto_update_interval, auto_update_event, stop_event,
                   httpd, server, class_blacklist_ips, sched, mainpc>>

\* DeleteRespond that does not look at what delete_attack returned
DeleteRespondAlways200(h) ==
    /\ Running
    /\ handler[h].pc = "del_respond"
    /\ Set(h, Respond(handler[h], 200))
    /\ UNCHANGED <<ledger, auto_update_interval, auto_update_event,
                   stop_event, httpd, server, class_blacklist_ips, sched,
                   mainpc>>

\* lines 253-262
DeleteRespond(h) ==
    /\ Running
    /\ handler[h].pc = "del_respond"
    /\ Set(h, Respond(handler[h], IF handler[h].success THEN 200 ELSE 404))
    /\ UNCHANGED <<ledger, auto_update_interval, auto_update_event,
                   stop_event, httpd, server, class_blacklist_ips, sched,
                   mainpc>>

\* ------------------------------------------------------- periodic_update
\* SchedCheck with a loop test that does not look at stop_event
SchedCheckIgnoresStop ==
    /\ Running
    /\ sched.pc = "check"
    /\ sched' = [sched EXCEPT !.pc = "fetch"]
    /\ UNCHANGED <<ledger, auto_update_interval, auto_update_event,
                   stop_event, httpd, server, class_blacklist_ips, handler,
                   mainpc>>

\* line 47: while not stop_event.is_set()
SchedCheck ==
    /\ Running
    /\ sched.pc = "check"
    /\ sched' = [sched EXCEPT !.pc = IF stop_event THEN "stopped" ELSE "fetch"]
    /\ UNCHANGED <<ledger, auto_update_interval, auto_update_event,
                   stop_event, httpd, server, class_blacklist_ips, handler,
                   mainpc>>

\* SchedFetch whose exception is not caught: it ends the thread
SchedFetchUncaught(call_ok) ==
    /\ Running
    /\ sched.pc = "fetch"
    /\ ledger' = IF call_ok THEN fetch_blacklist(ledger) ELSE ledger
    /\ sched' = [sched EXCEPT !.pc = IF call_ok THEN "begin_wait"
                                                ELSE "stopped",
                             !.failed = ~call_ok]
    /\ UNCHANGED <<auto_update_interval, auto_update_event, stop_event,
                   httpd, server, class_blacklist_ips, handler, mainpc>>

\* lines 50-54: fetch_blacklist(); an exception is caught and printed
SchedFetch(call_ok) ==
    /\ Running
    /\ sched.pc = "fetch"
    /\ ledger' = IF call_ok THEN fetch_blacklist(ledger) ELSE ledger
    /\ sched' = [sched EXCEPT !.pc = "begin_wait", !.failed = ~call_ok]
    /\ UNCHANGED <<auto_update_interval, auto_update_event, stop_event,
                   httpd, server, class_blacklist_ips, handler, mainpc>>

\* SchedBeginWait with the interval read once, when the module is loaded
SchedBeginWaitStale ==
    /\ Running
    /\ sched.pc = "begin_wait"
    /\ sched' = [sched EXCEPT !.pc = "waiting", !.timeout = InitialInterval]
    /\ UNCHANGED <<ledger, auto_update_interval, auto_update_event,
                   stop_event, httpd, server, class_blacklist_ips, handler,
                   mainpc>>

\* lines 56-57: stop_event.wait(timeout=auto_update_interval) is entered; the
\* timeout is the value the global has at the call
SchedBeginWait ==
    /\ Running
    /\ sched.pc = "begin_wait"
    /\ sched' = [sched EXCEPT !.pc = "waiting",
                             !.timeout = auto_update_interval]
    /\ UNCHANGED <<ledger, auto_update_interval, auto_update_event,
                   stop_event, httpd, server, class_blacklist_ips, handler,
                   mainpc>>

\* lines 57-58: the wait returns True because stop_event is set; break
SchedWake ==
    /\ Running
    /\ sched.pc = "waiting"
    /\ stop_event
    /\ sched' = [sched EXCEPT !.pc = "stopped", !.timeout = 0]
    /\ UNCHANGED <<ledger, auto_update_interval, auto_update_event,
                   stop_event, httpd, server, class_blacklist_ips, handler,
                   mainpc>>

\* line 57: the timeout runs out, the wait returns False, next iteration.
\* auto_update_event is not what the thread waits on.
SchedTimeout ==
    /\ Running
    /\ sched.pc = "waiting"
    /\ sched' = [sched EXCEPT !.pc = "check", !.timeout = 0]
    /\ UNCHANGED <<ledger, auto_update_interval, auto_update_event,
                   stop_event, httpd, server, class_blacklist_ips, handler,
                   mainpc>>

\* ------------------------------------------------ main and signal_handler
\* lines 316-327: the server is bound to the local name httpd of main (there
\* is no global statement, the module global stays None), the handler for
\* SIGINT is installed, the update thread is started, serve_forever begins
MainStart ==
    /\ mainpc = "setup"
    /\ server' = "serving"
    /\ httpd' = httpd
    /\ sched' = [sched EXCEPT !.pc = "check"]
    /\ mainpc' = "serving"
    /\ UNCHANGED <<ledger, auto_update_interval, auto_update_event,
                   stop_event, class_blacklist_ips, handler>>

\* SIGINT arrives; lines 286-287: stop_event.set()
SignalStop ==
    /\ mainpc = "serving"
    /\ stop_event' = TRUE
    /\ mainpc' = "sig_wake"
    /\ UNCHANGED <<ledger, auto_update_interval, auto_update_event, httpd,
                   server, class_blacklist_ips, handler, sched>>

\* lines 288-293: auto_update_event.set(); if httpd: httpd.shutdown();
\* httpd.server_close(); exit(0).  No other thread reads what these lines
\* write, so they are one step.  SystemExit leaves serve_forever and main; the
\* request threads and the update thread are daemon threads and end with the
\* process wherever they are.
SignalShutdown ==
    /\ mainpc = "sig_wake"
    /\ auto_update_event' = TRUE
    /\ server' = IF httpd # "None" THEN "closed" ELSE server
    /\ mainpc' = "exited"
    /\ UNCHANGED <<ledger, auto_update_interval, stop_event, httpd,
                   class_blacklist_ips, handler, sched>>

\* ------------------------------------------------------------------- Next
Next ==
    \/ \E h \in Serial, c \in Clients, p \in GetPaths, ok \in BOOLEAN :
          do_GET(h, c, p, ok)
    \/ \E h \in Serial, ok \in BOOLEAN : GetList(h, ok)
    \/ \E h \in Serial, c \in Clients, p \in PostPaths, ok \in BOOLEAN :
          \E b \in BodiesOf(p) : do_POST(h, c, p, b, ok)
    \/ \E h \in Serial : SetIntervalAssign(h)
    \/ \E h \in Serial : SetIntervalWake(h)
    \/ \E h \in Serial : SetIntervalRespond(h)
    \/ \E h \in Serial, ok \in BOOLEAN : UpdateForce(h, ok)
    \/ \E h \in Serial, ok \in BOOLEAN : UpdateRead(h, ok)
    \/ \E h \in Serial : UpdateRespond(h)
    \/ \E h \in Serial, ok \in BOOLEAN : ClearCall(h, ok)
    \/ \E h \in Serial : ClearRespond(h)
    \/ \E h \in Serial, t \in AttackTypes, ok \in BOOLEAN : LogCall(h, t, ok)
    \/ \E h \in Serial : LogRespond(h)
    \/ \E h \in Serial, c \in Clients, t \in DeleteTargets : do_DELETE(h, c, t)
    \/ \E h \in Serial, ok \in BOOLEAN : DeleteCall(h, ok)
    \/ \E h \in Serial : DeleteRespond(h)
    \/ SchedCheck
    \/ \E ok \in BOOLEAN : SchedFetch(ok)
    \/ SchedBeginWait
    \/ SchedWake
    \/ SchedTimeout
    \/ MainStart
    \/ SignalStop
    \/ SignalShutdown

Spec == Init /\ [][Next]_vars

\* The update thread is scheduled, its ledger call returns and the timeout of
\* its wait (line 57) runs out
SpecLive ==
    /\ Spec
    /\ WF_vars(SchedCheck)
    /\ WF_vars(\E ok \in BOOLEAN : SchedFetch(ok))
    /\ WF_vars(SchedBeginWait)
    /\ WF_vars(SchedWake)
    /\ WF_vars(SchedTimeout)

TypeOK ==
    /\ ledger \in Seq([ip : IPs, attack_type : AttackTypes])
    /\ Len(ledger) <= MaxLedger
    /\ auto_update_interval \in Nat
    /\ mainpc \in {"setup", "serving", "sig_wake", "exited"}

\* --------------------------------------------- two concurrent requests
\* One set-interval request with a valid body and one update request, both
\* from callers that are not blocked, handled by two threads at the same
\* time while the update thread runs.  The ledger holds what earlier log
\* requests left in it.
Ledgers ==
    UNION {[1..n -> [ip : IPs, attack_type : AttackTypes]] : n \in 0..MaxLedger}

InitPair ==
    /\ ledger \in Ledgers
    /\ auto_update_interval = InitialInterval
    /\ auto_update_event = FALSE
    /\ stop_event = FALSE
    /\ httpd = "None"
    /\ server = "serving"
    /\ class_blacklist_ips = {}
    /\ handler = [h \in Handlers |-> Idle]
    /\ sched = [pc |-> "check", timeout |-> 0, failed |-> FALSE]
    /\ mainpc = "serving"

PairSetInterval ==
    /\ handler["h1"].pc = "idle"
    /\ \E c \in Clients \ IPsOf(ledger), n \in 1..MaxInterval, ok \in BOOLEAN :
          do_POST("h1", c, "/blacklist/set-interval",
                  [kind |-> "int", v |-> n, ip |-> ""], ok)

PairUpdate ==
    /\ handler["h2"].pc = "idle"
    /\ \E c \in Clients \ IPsOf(ledger), ok \in BOOLEAN :
          do_POST("h2", c, "/blacklist/update", NoBody, ok)

NextPair ==
    \/ PairSetInterval
    \/ PairUpdate
    \/ SetIntervalAssign("h1")
    \/ SetIntervalWake("h1")
    \/ SetIntervalRespond("h1")
    \/ \E ok \in BOOLEAN : UpdateForce("h2", ok)
    \/ \E ok \in BOOLEAN : UpdateRead("h2", ok)
    \/ UpdateRespond("h2")
    \/ SchedCheck
    \/ \E ok \in BOOLEAN : SchedFetch(ok)
    \/ SchedBeginWait
    \/ SchedTimeout

SpecPair == InitPair /\ [][NextPair]_vars

\* ------------------------------------------------------- clear, then list
\* One clear request and, once it has been answered 200, one GET /blacklist,
\* while the update thread runs its cycles; no other request is made.
ClearThenListClear ==
    /\ handler["h1"].pc = "idle"
    /\ \E c \in Clients, ok \in BOOLEAN :
          do_POST("h1", c, "/blacklist/clear", NoBody, ok)

ClearThenListGet ==
    /\ handler["h1"].pc = "done"
    /\ handler["h1"].resp = 200
    /\ handler["h2"].pc = "idle"
    /\ \E c \in Clients, ok \in BOOLEAN : do_GET("h2", c, "/blacklist", ok)

NextClearThenList ==
    \/ ClearThenListClear
    \/ \E ok \in BOOLEAN : ClearCall("h1", ok)
    \/ ClearRespond("h1")
    \/ ClearThenListGet
    \/ \E ok \in BOOLEAN : GetList("h2", ok)
    \/ SchedCheck
    \/ \E ok \in BOOLEAN : SchedFetch(ok)
    \/ SchedBeginWait
    \/ SchedTimeout

SpecClearThenList == InitPair /\ [][NextClearThenList]_vars

\* ------------------------------------------- load and gate, two threads
\* Two request threads whose load_blacklist and gate are separate steps, so
\* that one thread's load can fall between the other's load and its gate.
\* The requests are GET /, POST /blacklist/log with a valid body and
\* POST /blacklist/clear.
GateRequests ==
    {[verb |-> "GET", path |-> "/", body |-> NoBody]}
    \cup {[verb |-> "POST", path |-> "/blacklist/log", body |-> b] :
            b \in {x \in LogBodies : x.kind = "ok"}}
    \cup {[verb |-> "POST", path |-> "/blacklist/clear", body |-> NoBody]}

\* lines 100-104 and 139-143: a new handler instance is made for the request
\* and runs load_blacklist
HandlerLoad(h, client_ip, q, read_ok) ==
    LET r0 == [Idle EXCEPT !.verb = q.verb, !.path = q.path,
                           !.client_ip = client_ip, !.body = q.body]
    IN  /\ Accepting
        /\ Free(h)
        /\ Set(h, IF read_ok
                  THEN [load_blacklist(r0) EXCEPT !.pc = "loaded"]
                  ELSE Crash(r0, "load_failed"))
        /\ UNCHANGED <<ledger, auto_update_interval, auto_update_event,
                       stop_event, httpd, server, class_blacklist_ips, sched,
                       mainpc>>

\* lines 106-137 and 146-232: the gate and the dispatch
HandlerGate(h) ==
    /\ Running
    /\ handler[h].pc = "loaded"
    /\ Set(h, IF handler[h].verb = "GET"
              THEN GetDispatch(handler[h])
              ELSE PostDispatch(handler[h]))
    /\ UNCHANGED <<ledger, auto_update_interval, auto_update_event,
                   stop_event, httpd, server, class_blacklist_ips, sched,
                   mainpc>>

NextGate ==
    \/ \E h \in Handlers, c \in Clients, q \in GateRequests, ok \in BOOLEAN :
          HandlerLoad(h, c, q, ok)
    \/ \E h \in Handlers : HandlerGate(h)
    \/ \E h \in Handlers, t \in AttackTypes, ok \in BOOLEAN : LogCall(h, t, ok)
    \/ \E h \in Handlers : LogRespond(h)
    \/ \E h \in Handlers, ok \in BOOLEAN : ClearCall(h, ok)
    \/ \E h \in Handlers : ClearRespond(h)

SpecGate == InitPair /\ [][NextGate]_vars

\* ----------------------------------------------------------- observation
\* h's handler sends its response in this step
ResponseSent(h) == handler'[h].pc = "done" /\ handler'[h] # handler[h]

\* h's handler begins in this step
HandlerEntered(h) == Free(h) /\ handler'[h] # handler[h]

\* The blacklist snapshot of the request held in r: the one its load_blacklist
\* read from the ledger, or, for a handler that made no such read, the one a
\* read of the ledger yields now
SnapshotFor(r) ==
    IF r.blacklist_ips = <<>>
    THEN IPsOf(get_blacklist(ledger))
    ELSE r.blacklist_ips[1]

\* h performs a ledger-mutating call (append, clear_all, delete, force
\* refresh) or assigns auto_update_interval in this step
MutatingStep(h) ==
    \/ handler[h].pc = "log_call" /\ handler'[h].pc = "log_respond"
    \/ handler[h].pc = "clr_call" /\ handler'[h].pc = "clr_respond"
    \/ handler[h].pc = "del_call" /\ handler'[h].pc = "del_respond"
    \/ handler[h].pc = "upd_force" /\ handler'[h].pc = "upd_read"
    \/ handler[h].pc = "si_assign" /\ handler'[h].pc = "si_event"

\* the body carries an integer interval n >= 1
IntegerAtLeastOne(body) == body.kind = "int" /\ body.v >= 1

\* ------------------------------------------------------------------ claims
\* C1: a caller whose IP is in the blacklist snapshot of its request is
\* answered 403, whatever the verb and the path; it never receives a 200, 400
\* or 404.
BlockedCallerGets403 ==
    [][\A h \in Handlers :
          (ResponseSent(h)
             /\ handler'[h].client_ip \in SnapshotFor(handler'[h]))
          => handler'[h].resp = 403]_vars

\* C2: no ledger-mutating call and no change of auto_update_interval is made
\* on behalf of a request whose caller IP is in the set of offending IPs as
\* read for that request.
NoMutationForBlockedCaller ==
    [][\A h \in Handlers :
          MutatingStep(h)
          => handler[h].client_ip \notin SnapshotFor(handler[h])]_vars

\* C3: a set-interval request of a non-blocked caller whose body is empty,
\* malformed or carries anything but an integer n >= 1 is answered 400 and
\* leaves auto_update_interval and auto_update_event as they were.
InvalidIntervalRejected ==
    [][\A h \in Handlers :
          (/\ HandlerEntered(h)
           /\ handler'[h].verb = "POST"
           /\ handler'[h].path = "/blacklist/set-interval"
           /\ handler'[h].pc # "load_failed"
           /\ handler'[h].resp # 403
           /\ ~IntegerAtLeastOne(handler'[h].body))
          => /\ handler'[h].pc = "done"
             /\ handler'[h].resp = 400
             /\ auto_update_interval' = auto_update_interval
             /\ auto_update_event' = auto_update_event]_vars

\* C4: once a set-interval with n >= 1 has been answered 200,
\* auto_update_interval is n, and every wait the update thread begins takes
\* the value auto_update_interval has at that moment as its timeout.
NewIntervalUsedByNextWait ==
    /\ [](\A h \in Serial :
            (/\ handler[h].pc = "done"
             /\ handler[h].path = "/blacklist/set-interval"
             /\ handler[h].resp = 200)
            => /\ handler[h].new_interval >= 1
               /\ auto_update_interval = handler[h].new_interval)
    /\ [][(sched.pc = "begin_wait" /\ sched'.pc = "waiting")
            => sched'.timeout = auto_update_interval']_vars

\* C4 witness: the update thread waits with the interval a set-interval
\* request has just been answered 200 for
WaitingWithNewInterval ==
    /\ handler["h1"].pc = "done"
    /\ handler["h1"].path = "/blacklist/set-interval"
    /\ handler["h1"].resp = 200
    /\ sched.pc = "waiting"
    /\ sched.timeout = handler["h1"].new_interval
    /\ sched.timeout # InitialInterval

\* C5: a wait of the update thread that is in progress with the old interval
\* when set-interval changes auto_update_interval and sets the interval-change
\* signal is ended by the signal; it does not run out its old timeout.
WaitInterruptedByIntervalChange ==
    [][~(/\ sched.pc = "waiting"
         /\ auto_update_event
         /\ sched.timeout # auto_update_interval
         /\ sched'.pc = "check")]_vars

\* C6: a request whose ledger read in load_blacklist failed is not aborted by
\* the failure: its handler still gates on the previous snapshot and responds.
LoadFailureNotRaised == \A h \in Handlers : handler[h].pc # "load_failed"

\* C7 (as stated): once stop_event is set the update thread starts no call
\* of fetch_blacklist.
NoFetchAfterStop ==
    [][stop_event => ~(sched.pc = "fetch" /\ sched'.pc = "begin_wait")]_vars

\* C7 (amended): once stop_event is set the update thread begins no new
\* cycle: no loop test passes after the signal, so the only fetch_blacklist
\* that can still start is the one of the cycle entered before the signal.
NoNewCycleAfterStop ==
    [][stop_event => ~(sched.pc \in {"check", "waiting"}
                         /\ sched'.pc = "fetch")]_vars

\* C7 witness: the signal has been given and the update thread has left its
\* loop while the process is still alive
StoppedAfterSignal ==
    stop_event /\ sched.pc = "stopped" /\ mainpc = "sig_wake"

\* C8: when the process has exited through the signal handler, shutdown and
\* server_close have been invoked on the server created in main.
ServerClosedOnExit == mainpc = "exited" => server = "closed"

\* C9: when the process exits, every handler that had started has sent its
\* response; none is cut off part-way.
InFlightRequestsComplete ==
    mainpc = "exited" => \A h \in Handlers : handler[h].pc \in Ended

\* C10: a set-interval request and an update request handled at the same
\* time do not disturb each other: whichever way their steps interleave, each
\* that is answered is answered 200, and when both are, auto_update_interval
\* is the requested value, force_update has been called exactly once, before
\* the read whose records the update response carries.
PairIndependent ==
    /\ [](\A h \in Handlers : handler[h].pc = "done" => handler[h].resp = 200)
    /\ []((handler["h1"].pc = "done" /\ handler["h2"].pc = "done")
            => /\ handler["h1"].new_interval = handler["h1"].body.v
               /\ auto_update_interval = handler["h1"].new_interval
               /\ auto_update_event
               /\ handler["h2"].force_calls = 1
               /\ handler["h2"].sent = get_blacklist(ledger))
    /\ [][(handler["h2"].pc = "upd_read" /\ handler'["h2"].pc = "upd_respond")
            => handler["h2"].force_calls = 1]_vars

\* C10 witness: both requests have been answered, the update one with a
\* non-empty list, the set-interval one having changed the interval
PairBothAnswered ==
    /\ handler["h1"].pc = "done" /\ handler["h1"].resp = 200
    /\ handler["h2"].pc = "done" /\ handler["h2"].resp = 200
    /\ auto_update_interval = MaxInterval
    /\ Len(handler["h2"].sent) > 0

\* C11: DELETE /blacklist/delete/{index}: when no record exists at the index
\* the ledger is left as it was and the answer is 404; when one exists the
\* ledger loses exactly one record and the answer is 200.
DeleteByIndex ==
    [][\A h \in Handlers :
          /\ (handler[h].pc = "del_call" /\ handler'[h].pc = "del_respond")
             => IF handler[h].index \in 0..(Len(ledger) - 1)
                THEN /\ Len(ledger') = Len(ledger) - 1
                     /\ handler'[h].success
                ELSE /\ ledger' = ledger
                     /\ ~handler'[h].success
          /\ (handler[h].pc = "del_respond" /\ handler'[h].pc = "done")
             => handler'[h].resp = IF handler[h].success THEN 200 ELSE 404]_vars

\* C11 witness: a delete of a missing index has been answered 404 with the
\* records still in the ledger
DeleteMissingAnswered404 ==
    /\ handler["h1"].pc = "done"
    /\ handler["h1"].path = "/blacklist/delete/{index}"
    /\ handler["h1"].resp = 404
    /\ Len(ledger) = MaxLedger

\* C12: POST /blacklist/log from a non-blocked caller: a body that is not
\* JSON or lacks a non-empty ip or attack_type is answered 400 and nothing is
\* appended; otherwise exactly one record with the body's ip is appended and
\* the answer is 200.
LogValidated ==
    [][\A h \in Handlers :
          /\ (/\ HandlerEntered(h)
              /\ handler'[h].verb = "POST"
              /\ handler'[h].path = "/blacklist/log"
              /\ handler'[h].pc # "load_failed"
              /\ handler'[h].resp # 403)
             => IF handler'[h].body.kind = "ok"
                THEN handler'[h].pc = "log_call" /\ ledger' = ledger
                ELSE /\ handler'[h].pc = "done"
                     /\ handler'[h].resp = 400
                     /\ ledger' = ledger
          /\ (handler[h].pc = "log_call" /\ handler'[h].pc = "log_respond")
             => /\ Len(ledger') = Len(ledger) + 1
                /\ SubSeq(ledger', 1, Len(ledger)) = ledger
                /\ ledger'[Len(ledger')].ip = handler[h].body.ip
                /\ ledger'[Len(ledger')].attack_type \in AttackTypes
          /\ (handler[h].pc = "log_respond" /\ handler'[h].pc = "done")
             => handler'[h].resp = 200 /\ ledger' = ledger]_vars

\* C12 witness: a log request has been answered 200 and its record is the
\* last of the ledger
LogAnswered200 ==
    /\ handler["h1"].pc = "done"
    /\ handler["h1"].path = "/blacklist/log"
    /\ handler["h1"].resp = 200
    /\ Len(ledger) > 0
    /\ ledger[Len(ledger)].ip = handler["h1"].body.ip

RefreshIntervalAtLeastOne == auto_update_interval >= 1

\* C14 witness: an interval below 1 has been refused after an earlier request
\* had changed the interval
LowIntervalRefusedAfterChange ==
    /\ handler["h1"].pc = "done"
    /\ handler["h1"].path = "/blacklist/set-interval"
    /\ handler["h1"].body.kind = "int"
    /\ handler["h1"].body.v < 1
    /\ handler["h1"].resp = 400
    /\ auto_update_interval = MaxInterval

\* C15: a refresh that raises is caught: the update thread goes on to its
\* wait with the interval current at that moment, it ends only when stop_event
\* is set, and unless stop_event is set it begins another refresh afterwards.
SchedulerSurvivesFailure ==
    /\ [][/\ (sched.pc = "fetch" /\ sched'.pc # "fetch")
             => sched'.pc = "begin_wait"
          /\ (sched.pc = "begin_wait" /\ sched'.pc # "begin_wait")
             => /\ sched'.pc = "waiting"
                /\ sched'.timeout = auto_update_interval
          /\ (sched.pc # "stopped" /\ sched'.pc = "stopped")
             => stop_event]_vars
    /\ (sched.failed /\ sched.pc = "begin_wait")
          ~> (sched.pc = "fetch" \/ stop_event)

\* C15 witness: the last refresh raised and the thread is in its wait, with
\* no stop requested
WaitingAfterFailedRefresh ==
    /\ sched.pc = "waiting"
    /\ sched.failed
    /\ sched.timeout = auto_update_interval
    /\ ~stop_event

\* C16: once stop_event is set the update thread comes to its end: when the
\* process has exited the thread has left its loop.  (That an ended thread
\* stays ended is NoNewCycleAfterStop.)
SchedulerStoppedAtExit ==
    mainpc = "exited" => sched.pc = "stopped"

\* C17 (as stated): after a step of the update thread whose refresh succeeded,
\* the blacklist snapshot the gate of a request consults is the set of IPs of
\* the ledger's records as of that refresh.
SchedulerCycleUpdatesSnapshot ==
    [][(sched.pc = "fetch" /\ sched'.pc = "begin_wait" /\ ~sched'.failed)
          => class_blacklist_ips' = IPsOf(ledger')]_vars

\* C17 (amended): a step of the update thread writes no blacklist snapshot,
\* neither the class attribute nor that of any handler; the snapshot a GET or
\* POST request's gate consults is the one the request itself built on entry
\* from the ledger's records as they were at that moment.
SnapshotBuiltByRequest ==
    [][/\ sched' # sched
          => /\ class_blacklist_ips' = class_blacklist_ips
             /\ handler' = handler
       /\ \A h \in Handlers :
             (/\ HandlerEntered(h)
              /\ handler'[h].verb \in {"GET", "POST"}
              /\ handler'[h].pc # "load_failed")
             => handler'[h].blacklist_ips
                   = <<{ledger[i].ip : i \in 1..Len(ledger)}>>]_vars

\* C17 witness: the update thread has just refreshed a ledger that holds
\* records, the class attribute is still empty, and a request has been refused
\* on the snapshot it built itself
RefusedOnOwnSnapshotAfterRefresh ==
    /\ sched.pc = "begin_wait"
    /\ ~sched.failed
    /\ ledger # <<>>
    /\ class_blacklist_ips = {}
    /\ handler["h1"].pc = "done"
    /\ handler["h1"].resp = 403
    /\ handler["h1"].blacklist_ips = <<IPsOf(ledger)>>

\* C18 (as stated): the blacklist snapshot is one piece of state shared by
\* all handlers: two requests that have both loaded and not yet passed their
\* gate read the same snapshot, the one written last.
SnapshotSharedByHandlers ==
    \A g, h \in Handlers :
        (handler[g].pc = "loaded" /\ handler[h].pc = "loaded")
        => handler[g].blacklist_ips = handler[h].blacklist_ips

\* C18 (amended): each handler has a snapshot of its own.  A load by one
\* handler changes neither the class attribute nor another handler's
\* snapshot, and the gate of a request refuses exactly when the caller is in
\* the snapshot that request loaded, whatever other requests loaded since.
GateReadsOwnSnapshot ==
    [][\A h \in Handlers :
          /\ (Free(h) /\ handler'[h].pc = "loaded")
             => /\ class_blacklist_ips' = class_blacklist_ips
                /\ \A g \in Handlers \ {h} : handler'[g] = handler[g]
          /\ (handler[h].pc = "loaded" /\ handler'[h].pc # "loaded")
             => ((handler'[h].pc = "done" /\ handler'[h].resp = 403)
                   <=> handler[h].client_ip \in handler[h].blacklist_ips[1])
      ]_vars

\* C18 witness: both requests have loaded; the caller of h1 is absent from
\* the snapshot of h1 and present in the one h2 loaded
LoadedSnapshotsDiffer ==
    /\ handler["h1"].pc = "loaded"
    /\ handler["h2"].pc = "loaded"
    /\ handler["h1"].client_ip \notin handler["h1"].blacklist_ips[1]
    /\ handler["h1"].client_ip \in handler["h2"].blacklist_ips[1]

\* C19: the snapshot a gate reads is the initial empty set or exactly the ip
\* fields of the records of one completed ledger read.  A handler's snapshot
\* changes only by being set, in one step, to the whole set of one read (or by
\* the handler instance being discarded); it is not touched between the load
\* and the gate, and the class attribute stays the initial empty set.
SnapshotIsOneLedgerRead ==
    [][/\ class_blacklist_ips' = {}
       /\ \A h \in Handlers :
             /\ handler'[h].blacklist_ips # handler[h].blacklist_ips
                => \/ handler'[h].blacklist_ips = <<>>
                   \/ /\ handler'[h].pc = "loaded"
                      /\ LET read == get_blacklist(ledger)
                         IN  handler'[h].blacklist_ips
                                = <<{read[i].ip : i \in 1..Len(read)}>>
             /\ handler[h].pc = "loaded"
                => handler'[h].blacklist_ips = handler[h].blacklist_ips]_vars

\* C19 witness: a request has loaded a snapshot of two addresses from a
\* ledger of two records and has not yet passed its gate, while the other
\* thread is between its own load and gate
TwoAddressSnapshotLoaded ==
    /\ handler["h1"].pc = "loaded"
    /\ handler["h1"].blacklist_ips = <<IPs>>
    /\ Len(ledger) = 2
    /\ handler["h2"].pc = "loaded"

====
